---- MODULE Spec2Model ----
(***************************************************************************)
(* Model of container-snapshotter (src/main.go): one orchestration pass    *)
(* (start, checkpoint+export, import+restore), the top-level wait, and the *)
(* deferred cleanup of every container of the namespace.                   *)
(*                                                                         *)
(* The containerd daemon is the environment.  Every call into it is one    *)
(* atomic step of the main goroutine that either succeeds or returns an    *)
(* error; tasks exit and signals arrive between any two steps.             *)
(***************************************************************************)
EXTENDS Integers, Sequences, FiniteSets, TLC

\* ---------------------------------------------------------------- bounds
\* containers that already exist in the namespace when the program starts
MaxOther == 0
\* cleanup passes made by the reaper harness (SpecReaper)
MaxPasses == 2

\* ------------------------------------------------------------- constants
Original == "nginx-server"
Restored == "restored-nginx"
OriginalSnapshot == "nginx-snapshot"
imageName == "docker.io/library/nginx:latest"
CheckpointImage == "isim.dev/checkpoint/container/nginx-server"
ExitCleanupFailed == 127
\* os.Exit(1) of log.Fatal, and the status of a Go program that panicked
ExitFatal == 1
ExitPanic == 2
\* exitCode while the process is alive
Alive == -1

Others == {"other" \o ToString(i) : i \in 1..MaxOther}
CIDs == {Original, Restored} \cup Others

\* containerd task states; "none" is a container without a task
TaskStates == {"created", "running", "paused", "stopped"}

\* an error value is the lines of its message; nil has none
Nil == <<>>
Err(c, call) == <<c \o ":" \o call>>
Call(c, call) == c \o ":" \o call

\* no remove has returned yet
NoResults == [c \in CIDs |-> [returned |-> FALSE, err |-> Nil]]

VARIABLES
    pc,          \* position of the main goroutine
    exitCode,    \* Alive, or the status the process exited with
    panicking,   \* main is unwinding from a panic
    connected,   \* the global client was set by initClients
    sigPending,  \* a signal is buffered in the signals channel (capacity 1)
    containers,  \* container records of the namespace
    task,        \* task state per container ("none" if it has no task)
    killed,      \* tasks that were sent SIGKILL and have not exited yet
    snaps,       \* snapshots held by the snapshotter
    imgs,        \* images in the image store
    cimage,      \* image each container was created from
    origCh,      \* exit channel of the original task, as seen by main
    restCh,      \* exit channel of the restored task
    archiveFile, \* main's archiveFile: "nil" or "file"
    archive,     \* images serialised in the archive file
    offset,      \* cursor of the open archive file, in images
    images,      \* result of client.Import
    img,         \* image selected for Restore
    queue,       \* containers enumerated by the current cleanup pass
    enumOk,      \* client.Containers of the current pass returned no error
    idx,         \* index in queue of the container being removed
    status,      \* status read by remove for the current container
    rmCh,        \* exit channel remove waits on
    errs,        \* errs of cleanup
    finalErr,    \* value returned by cleanup
    pass,        \* number of cleanup passes started
    attempts,    \* removes started per container in the current pass
    rmResult,    \* outcome of remove per container in the current pass
    prev,        \* what the previous cleanup pass returned
    calls,       \* calls issued to the runtime service so far
    done,        \* calls that returned without error
    logged,      \* what log.Print / log.Fatal wrote
    fatal,       \* error handed to log.Fatal
    created      \* containers created by this run

rtVars == <<containers, task, killed, snaps, imgs, cimage>>
chVars == <<origCh, restCh>>
fileVars == <<archiveFile, archive, offset, images, img>>
clVars == <<queue, enumOk, idx, status, rmCh, errs, finalErr, pass, attempts,
           rmResult, prev>>
histVars == <<calls, done, logged, fatal, created>>
procVars == <<exitCode, panicking, connected>>
vars == <<pc, procVars, sigPending, rtVars, chVars, fileVars, clVars, histVars>>

\* ------------------------------------------------------------------ Init
\* State at entry of main, after signal.Notify installed the handler.  The
\* namespace may already hold containers of other clients.
InitCommon ==
    /\ exitCode = Alive
    /\ panicking = FALSE
    /\ sigPending = FALSE
    /\ killed = {}
    /\ snaps = {}
    /\ imgs = {}
    /\ origCh = "unreg"
    /\ restCh = "unreg"
    /\ archiveFile = "nil"
    /\ archive = <<>>
    /\ offset = 0
    /\ images = <<>>
    /\ img = "none"
    /\ queue = <<>>
    /\ enumOk = FALSE
    /\ idx = 0
    /\ status = "none"
    /\ rmCh = "unreg"
    /\ prev = [ran |-> FALSE, enumOk |-> FALSE, failed |-> FALSE, n |-> 0]
    /\ errs = <<>>
    /\ finalErr = Nil
    /\ pass = 0
    /\ attempts = [c \in CIDs |-> 0]
    /\ rmResult = NoResults
    /\ calls = {}
    /\ done = {}
    /\ logged = {}
    /\ fatal = Nil
    /\ created = {}

Init ==
    /\ InitCommon
    /\ pc = "initClients"
    /\ connected = FALSE
    /\ containers \in SUBSET Others
    /\ task \in [CIDs -> TaskStates \cup {"none"}]
    /\ \A c \in CIDs \ containers : task[c] = "none"
    /\ cimage = [c \in CIDs |-> IF c \in containers THEN imageName ELSE "none"]

\* ----------------------------------------------------------- environment
\* SIGINT, were the handler of signal.Notify not installed: the process dies
Signal_default ==
    /\ exitCode = Alive
    /\ ~sigPending
    /\ sigPending' = TRUE
    /\ exitCode' = ExitPanic
    /\ pc' = "exited"
    /\ UNCHANGED <<panicking, connected, rtVars, chVars, fileVars, clVars, histVars>>

\* SIGINT is delivered to the signals channel; a second one is dropped while
\* the buffer is full.  (SIGKILL cannot be caught and is never delivered.)
Signal ==
    /\ exitCode = Alive
    /\ ~sigPending
    /\ sigPending' = TRUE
    /\ UNCHANGED <<pc, procVars, rtVars, chVars, fileVars, clVars, histVars>>

\* a waiter registered on the task's exit receives it
Notify(ch, c, who) == IF c = who /\ ch = "open" THEN "fired" ELSE ch

\* a running task exits, by itself or because it was killed
TaskExit(c) ==
    /\ exitCode = Alive
    /\ c \in containers
    /\ task[c] = "running"
    /\ task' = [task EXCEPT ![c] = "stopped"]
    /\ killed' = killed \ {c}
    /\ origCh' = Notify(origCh, c, Original)
    /\ restCh' = Notify(restCh, c, Restored)
    /\ rmCh' = IF idx \in 1..Len(queue) THEN Notify(rmCh, c, queue[idx]) ELSE rmCh
    /\ UNCHANGED <<pc, procVars, sigPending, containers, snaps, imgs, cimage,
                   fileVars, queue, enumOk, idx, status, errs, finalErr, pass,
                   attempts, rmResult, prev, histVars>>

\* ------------------------------------------------------------------ main
\* log.Fatal: print and os.Exit(1); deferred functions do not run
logFatal(err) ==
    /\ fatal' = err
    /\ logged' = logged \cup {"fatal"}
    /\ exitCode' = ExitFatal
    /\ pc' = "exited"

Issue(c, call, ok) ==
    /\ calls' = calls \cup {Call(c, call)}
    /\ done' = IF ok THEN done \cup {Call(c, call)} ELSE done

initClients ==
    /\ pc = "initClients"
    /\ \E ok \in BOOLEAN :
        /\ Issue("client", "New", ok)
        /\ IF ok
           THEN /\ connected' = TRUE
                /\ pc' = "start.Pull"
                /\ UNCHANGED <<exitCode, panicking, logged, fatal>>
           ELSE /\ logFatal(Err("client", "New"))
                /\ UNCHANGED <<panicking, connected>>
    /\ UNCHANGED <<sigPending, rtVars, chVars, fileVars, clVars, created>>

\* key of the snapshot a container was created on: WithNewSnapshot names it
\* for the original, WithRestoreImage uses the container id
SnapshotOf(c) == IF c = Original THEN OriginalSnapshot ELSE c

\* ----------------------------------------------------------------- start
\* the channel task.Wait returns: an exit that already happened is delivered
\* at once
WaitCh(c) == IF task[c] = "stopped" THEN "fired" ELSE "open"

\* start, were it to start the task before it registers for its exit
start_next_startFirst(step) ==
    CASE step = "start.Pull" -> "start.NewContainer"
      [] step = "start.NewContainer" -> "start.NewTask"
      [] step = "start.NewTask" -> "start.Start"
      [] step = "start.Start" -> "start.Wait"
      [] step = "start.Wait" -> "snapshots.Checkpoint"

\* order of the runtime calls of start; control returns to main after the last
start_next(step) ==
    CASE step = "start.Pull" -> "start.NewContainer"
      [] step = "start.NewContainer" -> "start.NewTask"
      [] step = "start.NewTask" -> "start.Wait"
      [] step = "start.Wait" -> "start.Start"
      [] step = "start.Start" -> "snapshots.Checkpoint"

\* main, lines 46-49: an error of start goes to log.Fatal
main_startFailed(err) ==
    /\ logFatal(err)
    /\ UNCHANGED <<panicking, connected>>

main_startStep ==
    /\ pc' = start_next(pc)
    /\ UNCHANGED <<procVars, fatal>>

start_Pull ==
    /\ pc = "start.Pull"
    /\ \E ok \in BOOLEAN :
        /\ Issue("client", "Pull", ok)
        /\ IF ok
           THEN /\ imgs' = imgs \cup {imageName}
                /\ logged' = logged \cup {"pulled image"}
                /\ main_startStep
           ELSE /\ main_startFailed(Err("client", "Pull"))
                /\ UNCHANGED imgs
    /\ UNCHANGED <<sigPending, containers, task, killed, snaps, cimage, chVars,
                   fileVars, clVars, created>>

start_NewContainer ==
    /\ pc = "start.NewContainer"
    /\ \E ok \in {b \in BOOLEAN : b => Original \notin containers} :
        /\ Issue("client", "NewContainer", ok)
        /\ IF ok
           THEN /\ containers' = containers \cup {Original}
                /\ snaps' = snaps \cup {SnapshotOf(Original)}
                /\ cimage' = [cimage EXCEPT ![Original] = imageName]
                /\ created' = created \cup {Original}
                /\ main_startStep
                /\ UNCHANGED logged
           ELSE /\ main_startFailed(Err("client", "NewContainer"))
                /\ UNCHANGED <<containers, snaps, cimage, created>>
    /\ UNCHANGED <<sigPending, task, killed, imgs, chVars, fileVars, clVars>>

start_NewTask ==
    /\ pc = "start.NewTask"
    /\ \E ok \in BOOLEAN :
        /\ Issue(Original, "NewTask", ok)
        /\ IF ok
           THEN /\ task' = [task EXCEPT ![Original] = "created"]
                /\ main_startStep
                /\ UNCHANGED logged
           ELSE /\ main_startFailed(Err(Original, "NewTask"))
                /\ UNCHANGED task
    /\ UNCHANGED <<sigPending, containers, killed, snaps, imgs, cimage, chVars,
                   fileVars, clVars, created>>

start_Wait ==
    /\ pc = "start.Wait"
    /\ \E ok \in BOOLEAN :
        /\ Issue(Original, "Wait", ok)
        /\ IF ok
           THEN /\ origCh' = WaitCh(Original)
                /\ main_startStep
                /\ UNCHANGED logged
           ELSE /\ main_startFailed(Err(Original, "Wait"))
                /\ UNCHANGED origCh
    /\ UNCHANGED <<sigPending, rtVars, restCh, fileVars, clVars, created>>

start_Start ==
    /\ pc = "start.Start"
    /\ \E ok \in {b \in BOOLEAN : b => task[Original] = "created"} :
        /\ Issue(Original, "Start", ok)
        /\ IF ok
           THEN /\ task' = [task EXCEPT ![Original] = "running"]
                /\ main_startStep
                /\ UNCHANGED logged
           ELSE /\ main_startFailed(Err(Original, "Start"))
                /\ UNCHANGED task
    /\ UNCHANGED <<sigPending, containers, killed, snaps, imgs, cimage, chVars,
                   fileVars, clVars, created>>

start ==
    \/ start_Pull
    \/ start_NewContainer
    \/ start_NewTask
    \/ start_Wait
    \/ start_Start

\* ------------------------------------------------------ snapshots, export
\* snapshots, were it to return the file it opened along with the error
main_snapshotsFailed_keepFile ==
    /\ logged' = logged \cup {"err:snapshots"}
    /\ archiveFile' = IF pc = "snapshots.Checkpoint" THEN "nil" ELSE "file"
    /\ pc' = "restore.Seek"

\* main, were it to return after printing the error of snapshots
main_snapshotsFailed_return ==
    /\ logged' = logged \cup {"err:snapshots"}
    /\ archiveFile' = "nil"
    /\ pc' = "cleanup.Containers"

\* main, lines 51-54: an error of snapshots is printed, archiveFile is nil,
\* and main goes on to restore
main_snapshotsFailed ==
    /\ logged' = logged \cup {"err:snapshots"}
    /\ archiveFile' = "nil"
    /\ pc' = "restore.Seek"

snapshots_Checkpoint ==
    /\ pc = "snapshots.Checkpoint"
    /\ \E ok \in {b \in BOOLEAN : b => task[Original] = "running"} :
        /\ Issue(Original, "Checkpoint", ok)
        /\ IF ok
           THEN /\ imgs' = imgs \cup {CheckpointImage}
                /\ logged' = logged \cup {"created container snapshot"}
                /\ pc' = "export.Create"
                /\ UNCHANGED archiveFile
           ELSE /\ main_snapshotsFailed
                /\ UNCHANGED imgs
    /\ UNCHANGED <<procVars, sigPending, containers, task, killed, snaps, cimage,
                   chVars, archive, offset, images, img, clVars, fatal, created>>

\* os.Create: a fresh, empty file with the cursor at its start
export_Create ==
    /\ pc = "export.Create"
    /\ \E ok \in BOOLEAN :
        /\ Issue("os", "Create", ok)
        /\ IF ok
           THEN /\ archive' = <<>>
                /\ offset' = 0
                /\ pc' = "export.Export"
                /\ UNCHANGED <<archiveFile, logged>>
           ELSE /\ main_snapshotsFailed
                /\ UNCHANGED <<archive, offset>>
    /\ UNCHANGED <<procVars, sigPending, rtVars, chVars, images, img, clVars,
                   fatal, created>>

\* export, were it to select the pulled image instead of image.Name()
export_Export_pulled ==
    /\ pc = "export.Export"
    /\ \E ok \in {b \in BOOLEAN : b => imageName \in imgs} :
        /\ Issue("client", "Export", ok)
        /\ IF ok
           THEN /\ archive' = archive \o <<imageName>>
                /\ offset' = Len(archive')
                /\ archiveFile' = "file"
                /\ pc' = "restore.Seek"
                /\ UNCHANGED logged
           ELSE /\ main_snapshotsFailed
                /\ UNCHANGED <<archive, offset>>
    /\ UNCHANGED <<procVars, sigPending, rtVars, chVars, images, img, clVars,
                   fatal, created>>

\* client.Export writes the image and leaves the cursor behind what it wrote
export_Export ==
    /\ pc = "export.Export"
    /\ \E ok \in {b \in BOOLEAN : b => CheckpointImage \in imgs} :
        /\ Issue("client", "Export", ok)
        /\ IF ok
           THEN /\ archive' = archive \o <<CheckpointImage>>
                /\ offset' = Len(archive')
                /\ archiveFile' = "file"
                /\ pc' = "restore.Seek"
                /\ UNCHANGED logged
           ELSE /\ main_snapshotsFailed
                /\ UNCHANGED <<archive, offset>>
    /\ UNCHANGED <<procVars, sigPending, rtVars, chVars, images, img, clVars,
                   fatal, created>>

snapshots ==
    \/ snapshots_Checkpoint
    \/ export_Create
    \/ export_Export

\* --------------------------------------------------------------- restore
\* restore, were it to return without starting the task
restore_next_noStart(step) ==
    CASE step = "restore.Seek" -> "restore.Import"
      [] step = "restore.Import" -> "restore.GetImage"
      [] step = "restore.GetImage" -> "restore.Restore"
      [] step = "restore.Restore" -> "restore.NewTask"
      [] step = "restore.NewTask" -> "restore.Wait"
      [] step = "restore.Wait" -> "select"
      [] step = "restore.Start" -> "select"

restore_next(step) ==
    CASE step = "restore.Seek" -> "restore.Import"
      [] step = "restore.Import" -> "restore.GetImage"
      [] step = "restore.GetImage" -> "restore.Restore"
      [] step = "restore.Restore" -> "restore.NewTask"
      [] step = "restore.NewTask" -> "restore.Wait"
      [] step = "restore.Wait" -> "restore.Start"
      [] step = "restore.Start" -> "select"

\* main, lines 56-58: an error of restore is printed and main goes on to wait
main_restoreFailed ==
    /\ logged' = logged \cup {"err:restore"}
    /\ pc' = "select"

\* what an import reads: the images from the cursor to the end of the file
ReadArchive(a, off) == SubSeq(a, off + 1, Len(a))

\* restore, were it to seek relative to the cursor (Seek(0, 1))
restore_Seek_current ==
    /\ pc = "restore.Seek"
    /\ \E ok \in {b \in BOOLEAN : b => archiveFile = "file"} :
        /\ Issue("os", "Seek", ok)
        /\ IF ok
           THEN /\ offset' = offset
                /\ pc' = restore_next(pc)
                /\ UNCHANGED logged
           ELSE /\ main_restoreFailed
                /\ UNCHANGED offset
    /\ UNCHANGED <<procVars, sigPending, rtVars, chVars, archiveFile, archive,
                   images, img, clVars, fatal, created>>

\* (*os.File).Seek fails with ErrInvalid on a nil file
restore_Seek ==
    /\ pc = "restore.Seek"
    /\ \E ok \in {b \in BOOLEAN : b => archiveFile = "file"} :
        /\ Issue("os", "Seek", ok)
        /\ IF ok
           THEN /\ offset' = 0
                /\ pc' = restore_next(pc)
                /\ UNCHANGED logged
           ELSE /\ main_restoreFailed
                /\ UNCHANGED offset
    /\ UNCHANGED <<procVars, sigPending, rtVars, chVars, archiveFile, archive,
                   images, img, clVars, fatal, created>>

\* client.Import: an error, the images read from the cursor on, or (an archive
\* the service finds no manifest in) none at all
restore_Import ==
    /\ pc = "restore.Import"
    /\ \E res \in {"err", "read", "empty"} :
        /\ Issue("client", "Import", res # "err")
        /\ IF res # "err"
           THEN /\ images' = IF res = "read" THEN ReadArchive(archive, offset)
                                             ELSE <<>>
                /\ offset' = Len(archive)
                /\ imgs' = imgs \cup {images'[i] : i \in 1..Len(images')}
                /\ logged' = logged \cup {"imported images"}
                /\ pc' = restore_next(pc)
                /\ UNCHANGED <<panicking>>
           ELSE /\ main_restoreFailed
                /\ UNCHANGED <<images, offset, imgs, panicking>>
    /\ UNCHANGED <<exitCode, connected, sigPending, containers, task, killed, snaps,
                   cimage, chVars, archiveFile, archive, img, clVars, fatal, created>>

\* images[0] panics on an empty slice: main unwinds and runs its deferred
\* function
restore_GetImage ==
    /\ pc = "restore.GetImage"
    /\ IF Len(images) = 0
       THEN /\ panicking' = TRUE
            /\ pc' = "cleanup.Containers"
            /\ UNCHANGED <<img, logged, calls, done>>
       ELSE \E ok \in {b \in BOOLEAN : b => images[1] \in imgs} :
            /\ Issue("client", "GetImage", ok)
            /\ UNCHANGED panicking
            /\ IF ok
               THEN /\ img' = images[1]
                    /\ logged' = logged \cup {"found image archive"}
                    /\ pc' = restore_next(pc)
               ELSE /\ main_restoreFailed
                    /\ UNCHANGED img
    /\ UNCHANGED <<exitCode, connected, sigPending, rtVars, chVars, archiveFile,
                   archive, offset, images, clVars, fatal, created>>

restore_Restore ==
    /\ pc = "restore.Restore"
    /\ \E ok \in {b \in BOOLEAN : b => Restored \notin containers} :
        /\ Issue("client", "Restore", ok)
        /\ IF ok
           THEN /\ containers' = containers \cup {Restored}
                /\ snaps' = snaps \cup {SnapshotOf(Restored)}
                /\ cimage' = [cimage EXCEPT ![Restored] = img]
                /\ created' = created \cup {Restored}
                /\ logged' = logged \cup {"started container"}
                /\ pc' = restore_next(pc)
           ELSE /\ main_restoreFailed
                /\ UNCHANGED <<containers, snaps, cimage, created>>
    /\ UNCHANGED <<procVars, sigPending, task, killed, imgs, chVars, fileVars,
                   clVars, fatal>>

restore_NewTask ==
    /\ pc = "restore.NewTask"
    /\ \E ok \in BOOLEAN :
        /\ Issue(Restored, "NewTask", ok)
        /\ IF ok
           THEN /\ task' = [task EXCEPT ![Restored] = "created"]
                /\ pc' = restore_next(pc)
                /\ UNCHANGED logged
           ELSE /\ main_restoreFailed
                /\ UNCHANGED task
    /\ UNCHANGED <<procVars, sigPending, containers, killed, snaps, imgs, cimage,
                   chVars, fileVars, clVars, fatal, created>>

restore_Wait ==
    /\ pc = "restore.Wait"
    /\ \E ok \in BOOLEAN :
        /\ Issue(Restored, "Wait", ok)
        /\ IF ok
           THEN /\ restCh' = WaitCh(Restored)
                /\ pc' = restore_next(pc)
                /\ UNCHANGED logged
           ELSE /\ main_restoreFailed
                /\ UNCHANGED restCh
    /\ UNCHANGED <<procVars, sigPending, rtVars, origCh, fileVars, clVars, fatal,
                   created>>

restore_Start ==
    /\ pc = "restore.Start"
    /\ \E ok \in {b \in BOOLEAN : b => task[Restored] = "created"} :
        /\ Issue(Restored, "Start", ok)
        /\ IF ok
           THEN /\ task' = [task EXCEPT ![Restored] = "running"]
                /\ logged' = logged \cup {"starting container task"}
                /\ pc' = restore_next(pc)
           ELSE /\ logged' = logged \cup {"starting container task", "err:restore"}
                /\ pc' = "select"
                /\ task' = task
    /\ UNCHANGED <<procVars, sigPending, containers, killed, snaps, imgs, cimage,
                   chVars, fileVars, clVars, fatal, created>>

restore ==
    \/ restore_Seek
    \/ restore_Import
    \/ restore_GetImage
    \/ restore_Restore
    \/ restore_NewTask
    \/ restore_Wait
    \/ restore_Start

\* ------------------------------------------------------- main: the select
\* the select, were it to listen to the exit of the restored task as well
selectWaitReady_any(ch) == ch = "fired" \/ restCh = "fired"

\* the cases of the select that can proceed
selectSignalReady(sig) == sig
selectWaitReady(ch) == ch = "fired"

\* case s := <-signals: log, return; the deferred function runs
main_selectSignal ==
    /\ pc = "select"
    /\ selectSignalReady(sigPending)
    /\ sigPending' = FALSE
    /\ logged' = logged \cup {"received signal"}
    /\ pc' = "cleanup.Containers"
    /\ UNCHANGED <<procVars, rtVars, chVars, fileVars, clVars, calls, done, fatal,
                   created>>

\* case status := <-wait: log, return; the deferred function runs
main_selectWait ==
    /\ pc = "select"
    /\ selectWaitReady(origCh)
    /\ origCh' = "consumed"
    /\ logged' = logged \cup {"task completed"}
    /\ pc' = "cleanup.Containers"
    /\ UNCHANGED <<procVars, sigPending, rtVars, restCh, fileVars, clVars, calls,
                   done, fatal, created>>

main_select ==
    \/ main_selectSignal
    \/ main_selectWait

\* --------------------------------------------------------------- cleanup
\* the orders in which the service may list a set of containers
Enumerations(S) ==
    {q \in [1..Cardinality(S) -> S] : \A i, j \in 1..Cardinality(S) :
                                          q[i] = q[j] => i = j}

\* the loop of cleanup, were it to stop at the first error
cleanup_next_failfast(i, n) ==
    IF i < n /\ errs' = <<>> THEN "remove.Task" ELSE "cleanup.aggregate"

\* position after the loop body ran for the i-th of n containers
cleanup_next(i, n) == IF i < n THEN "remove.Task" ELSE "cleanup.aggregate"

\* the loop of cleanup, were it to forget the error of remove
cleanup_collect_drop(es, err) == es

\* lines 211-213
cleanup_collect(es, err) == IF err # Nil THEN Append(es, err) ELSE es

\* lines 216-225: fmt.Errorf("%s\n%s", finalErr, e) appends the lines of e
RECURSIVE cleanup_fold(_, _)
cleanup_fold(acc, es) ==
    IF es = <<>> THEN acc
    ELSE cleanup_fold(IF acc = Nil THEN Head(es) ELSE acc \o Head(es), Tail(es))

cleanup_finalErr(es) == cleanup_fold(Nil, es)

cleanup_Containers ==
    /\ pc = "cleanup.Containers"
    /\ pass' = pass + 1
    /\ attempts' = [c \in CIDs |-> 0]
    /\ rmResult' = NoResults
    /\ errs' = <<>>
    /\ status' = "none"
    /\ rmCh' = "unreg"
    /\ \E ok \in BOOLEAN :
        /\ Issue("client", "Containers", ok)
        /\ enumOk' = ok
        /\ IF ok
           THEN /\ \E q \in Enumerations(containers) : queue' = q
                /\ idx' = 1
                /\ finalErr' = Nil
                /\ pc' = cleanup_next(0, Len(queue'))
           ELSE /\ queue' = <<>>
                /\ idx' = 0
                /\ finalErr' = Err("client", "Containers")
                /\ pc' = "deferred"
    /\ UNCHANGED <<procVars, sigPending, rtVars, chVars, fileVars, prev, logged,
                   fatal, created>>

cleanup_aggregate ==
    /\ pc = "cleanup.aggregate"
    /\ finalErr' = cleanup_finalErr(errs)
    /\ pc' = "deferred"
    /\ UNCHANGED <<procVars, sigPending, rtVars, chVars, fileVars, queue, enumOk,
                   idx, status, rmCh, errs, pass, attempts, rmResult, prev,
                   histVars>>

\* ---------------------------------------------------------------- remove
cur == queue[idx]

\* remove returns err to the loop of cleanup, which goes to the next container
remove_return(err) ==
    /\ rmResult' = [rmResult EXCEPT ![cur] = [returned |-> TRUE, err |-> err]]
    /\ errs' = cleanup_collect(errs, err)
    /\ idx' = idx + 1
    /\ pc' = cleanup_next(idx, Len(queue))
    /\ status' = "none"

\* remove, were it to ignore the error of container.Task
remove_Task_ignoreErr ==
    /\ pc = "remove.Task"
    /\ attempts' = [attempts EXCEPT ![cur] = @ + 1]
    /\ logged' = logged \cup {"removing:" \o cur}
    /\ \E ok \in {b \in BOOLEAN : b => (cur \in containers /\ task[cur] # "none")} :
        /\ Issue(cur, "rm.Task", ok)
        /\ pc' = "remove.Status"
        /\ UNCHANGED <<rmResult, errs, idx, status>>
    /\ UNCHANGED <<procVars, sigPending, rtVars, chVars, fileVars, queue, enumOk,
                   rmCh, finalErr, pass, prev, fatal, created>>

remove_Task ==
    /\ pc = "remove.Task"
    /\ attempts' = [attempts EXCEPT ![cur] = @ + 1]
    /\ logged' = logged \cup {"removing:" \o cur}
    /\ \E ok \in {b \in BOOLEAN : b => (cur \in containers /\ task[cur] # "none")} :
        /\ Issue(cur, "rm.Task", ok)
        /\ IF ok
           THEN /\ pc' = "remove.Status"
                /\ UNCHANGED <<rmResult, errs, idx, status>>
           ELSE remove_return(Err(cur, "Task"))
    /\ UNCHANGED <<procVars, sigPending, rtVars, chVars, fileVars, queue, enumOk,
                   rmCh, finalErr, pass, prev, fatal, created>>

remove_Status ==
    /\ pc = "remove.Status"
    /\ \E ok \in {b \in BOOLEAN : b => task[cur] # "none"} :
        /\ Issue(cur, "rm.Status", ok)
        /\ IF ok
           THEN /\ status' = task[cur]
                /\ pc' = IF status' = "running" THEN "remove.Kill" ELSE "remove.Wait"
                /\ UNCHANGED <<rmResult, errs, idx>>
           ELSE remove_return(Err(cur, "Status"))
    /\ UNCHANGED <<procVars, sigPending, rtVars, chVars, fileVars, queue, enumOk,
                   rmCh, finalErr, pass, attempts, prev, logged, fatal, created>>

\* SIGKILL is delivered to a live task; the task exits some time later
remove_Kill ==
    /\ pc = "remove.Kill"
    /\ \E ok \in {b \in BOOLEAN : b => task[cur] = "running"} :
        /\ Issue(cur, "rm.Kill", ok)
        /\ IF ok
           THEN /\ killed' = killed \cup {cur}
                /\ logged' = logged \cup {"process killed:" \o cur}
                /\ pc' = "remove.Wait"
                /\ UNCHANGED <<rmResult, errs, idx, status>>
           ELSE /\ remove_return(Err(cur, "Kill"))
                /\ UNCHANGED <<killed, logged>>
    /\ UNCHANGED <<procVars, sigPending, containers, task, snaps, imgs, cimage,
                   chVars, fileVars, queue, enumOk, rmCh, finalErr, pass, attempts,
                   prev, fatal, created>>

\* remove, were it to delete the task without receiving from wait
remove_Wait_noRecv ==
    /\ pc = "remove.Wait"
    /\ \E ok \in {b \in BOOLEAN : b => task[cur] # "none"} :
        /\ Issue(cur, "rm.Wait", ok)
        /\ IF ok
           THEN /\ rmCh' = WaitCh(cur)
                /\ pc' = "remove.TaskDelete"
                /\ UNCHANGED <<rmResult, errs, idx, status>>
           ELSE /\ remove_return(Err(cur, "Wait"))
                /\ UNCHANGED rmCh
    /\ UNCHANGED <<procVars, sigPending, rtVars, chVars, fileVars, queue, enumOk,
                   finalErr, pass, attempts, prev, logged, fatal, created>>

remove_Wait ==
    /\ pc = "remove.Wait"
    /\ \E ok \in {b \in BOOLEAN : b => task[cur] # "none"} :
        /\ Issue(cur, "rm.Wait", ok)
        /\ IF ok
           THEN /\ rmCh' = WaitCh(cur)
                /\ pc' = "remove.recv"
                /\ UNCHANGED <<rmResult, errs, idx, status>>
           ELSE /\ remove_return(Err(cur, "Wait"))
                /\ UNCHANGED rmCh
    /\ UNCHANGED <<procVars, sigPending, rtVars, chVars, fileVars, queue, enumOk,
                   finalErr, pass, attempts, prev, logged, fatal, created>>

\* <-wait blocks until the exit status arrives
remove_recv ==
    /\ pc = "remove.recv"
    /\ rmCh = "fired"
    /\ rmCh' = "unreg"
    /\ pc' = "remove.TaskDelete"
    /\ UNCHANGED <<procVars, sigPending, rtVars, chVars, fileVars, queue, enumOk,
                   idx, status, errs, finalErr, pass, attempts, rmResult, prev,
                   histVars>>

\* the service deletes only a task that has stopped
remove_TaskDelete ==
    /\ pc = "remove.TaskDelete"
    /\ \E ok \in {b \in BOOLEAN : b => task[cur] = "stopped"} :
        /\ Issue(cur, "rm.TaskDelete", ok)
        /\ IF ok
           THEN /\ task' = [task EXCEPT ![cur] = "none"]
                /\ logged' = logged \cup {"task deleted:" \o cur}
                /\ pc' = "remove.ContainerDelete"
                /\ UNCHANGED <<rmResult, errs, idx, status>>
           ELSE /\ remove_return(Err(cur, "TaskDelete"))
                /\ UNCHANGED <<task, logged>>
    /\ UNCHANGED <<procVars, sigPending, containers, killed, snaps, imgs, cimage,
                   chVars, fileVars, queue, enumOk, rmCh, finalErr, pass, attempts,
                   prev, fatal, created>>

\* container.Delete(ctx) without options: the record goes, the snapshot stays;
\* the service refuses while the container has a task
remove_ContainerDelete ==
    /\ pc = "remove.ContainerDelete"
    /\ \E ok \in {b \in BOOLEAN : b => (cur \in containers /\ task[cur] = "none")} :
        /\ Issue(cur, "rm.ContainerDelete", ok)
        /\ IF ok
           THEN /\ containers' = containers \ {cur}
                /\ cimage' = [cimage EXCEPT ![cur] = "none"]
                /\ logged' = logged \cup {"container deleted:" \o cur}
                /\ remove_return(Nil)
           ELSE /\ remove_return(Err(cur, "ContainerDelete"))
                /\ UNCHANGED <<containers, cimage, logged>>
    /\ UNCHANGED <<procVars, sigPending, task, killed, snaps, imgs, chVars,
                   fileVars, queue, enumOk, rmCh, finalErr, pass, attempts, prev,
                   fatal, created>>

remove ==
    \/ remove_Task
    \/ remove_Status
    \/ remove_Kill
    \/ remove_Wait
    \/ remove_recv
    \/ remove_TaskDelete
    \/ remove_ContainerDelete

cleanup ==
    \/ cleanup_Containers
    \/ remove
    \/ cleanup_aggregate

\* ------------------------------------------------- main: deferred function
\* lines 38-44: os.Exit(127) on a cleanup error; otherwise main returns
\* (status 0) or the panic that unwound main ends the process (status 2)
\* the deferred function, were it to print the error and return
deferred_exit_noExit(err, panic) == IF panic THEN ExitPanic ELSE 0

deferred_exit(err, panic) ==
    IF err # Nil THEN ExitCleanupFailed
    ELSE IF panic THEN ExitPanic ELSE 0

main_deferred ==
    /\ pc = "deferred"
    /\ exitCode' = deferred_exit(finalErr, panicking)
    /\ logged' = IF finalErr # Nil THEN logged \cup {"err:cleanup"} ELSE logged
    /\ connected' = (finalErr # Nil)
    /\ pc' = "exited"
    /\ UNCHANGED <<panicking, sigPending, rtVars, chVars, fileVars, clVars, calls,
                   done, fatal, created>>

\* ------------------------------------------------------------------ Next
Environment ==
    \/ Signal
    \/ \E c \in CIDs : TaskExit(c)

Main ==
    \/ initClients
    \/ start
    \/ snapshots
    \/ restore
    \/ main_select
    \/ cleanup
    \/ main_deferred

Next == Main \/ Environment

Spec == Init /\ [][Next]_vars

\* every call into the service returns, so the main goroutine keeps moving
\* while it is not blocked on a channel
FairSpec == Spec /\ WF_vars(Main)

\* ------------------------------------------------------- reaper harness
\* cleanup applied, MaxPasses times in succession, to any state the runtime
\* service can be in; nothing creates a container in between.  Each pass
\* starts with an empty record of calls and log lines.
InitReaper ==
    /\ InitCommon
    /\ pc = "cleanup.Containers"
    /\ connected = TRUE
    /\ containers \in SUBSET CIDs
    /\ task \in [CIDs -> TaskStates \cup {"none"}]
    /\ \A c \in CIDs \ containers : task[c] = "none"
    /\ cimage = [c \in CIDs |-> IF c \in containers THEN imageName ELSE "none"]

Rerun ==
    /\ pc = "deferred"
    /\ pass < MaxPasses
    /\ prev' = [ran |-> TRUE, enumOk |-> enumOk, failed |-> finalErr # Nil,
                n |-> Len(queue)]
    /\ pc' = "cleanup.Containers"
    /\ calls' = {}
    /\ done' = {}
    /\ logged' = {}
    /\ UNCHANGED <<procVars, sigPending, rtVars, chVars, fileVars, queue, enumOk,
                   idx, status, rmCh, errs, finalErr, pass, attempts, rmResult,
                   fatal, created>>

NextReaper ==
    \/ cleanup
    \/ \E c \in CIDs : TaskExit(c)
    \/ Rerun

SpecReaper == InitReaper /\ [][NextReaper]_vars

\* ================================================================ claims
Range(q) == {q[i] : i \in 1..Len(q)}

\* containers whose remove returned an error in the current pass
Failed == {c \in Range(queue) : rmResult[c].err # Nil}

\* cleanup has enumerated the containers and returned to its caller
CleanupReturned == pc = "deferred" /\ enumOk

\* C1 -- Cleanup totality.  In a pass over the N enumerated containers remove
\* is started exactly once for each of them, whatever happened to those before
\* it; when cleanup returns, its error holds exactly the errors of the K
\* containers whose remove failed (nil iff K = 0), and the other N-K containers
\* are gone from the service.
C1_CleanupTotality ==
    /\ \A c \in CIDs : attempts[c] <= 1
    /\ CleanupReturned =>
        /\ \A c \in CIDs : attempts[c] = IF c \in Range(queue) THEN 1 ELSE 0
        /\ \A c \in Range(queue) : rmResult[c].returned
        /\ Len(finalErr) = Cardinality(Failed)
        /\ Range(finalErr) = UNION {Range(rmResult[c].err) : c \in Failed}
        /\ (finalErr = Nil <=> Failed = {})
        /\ \A c \in Range(queue) \ Failed : c \notin containers

\* a pass over two containers in which the first failed and the second was
\* deleted
C1_Witness ==
    /\ CleanupReturned
    /\ Len(queue) = 2
    /\ rmResult[queue[1]].err # Nil
    /\ rmResult[queue[2]].err = Nil
    /\ queue[2] \notin containers

\* C2 (as stated) -- Idempotent teardown.  Whatever the state of the service,
\* a cleanup pass that directly follows another one enumerates no container
\* and returns no error (both passes having obtained their enumeration).
C2_Idempotent_Original ==
    (pc = "deferred" /\ prev.ran /\ prev.enumOk /\ enumOk)
        => (Len(queue) = 0 /\ finalErr = Nil)

\* C2 (amended) -- a cleanup pass that directly follows a pass that returned no
\* error, and whose own enumeration succeeds, enumerates no container and
\* returns no error.
C2_Idempotent ==
    (pc = "deferred" /\ prev.ran /\ ~prev.failed /\ enumOk)
        => (Len(queue) = 0 /\ finalErr = Nil)

\* a second pass that found nothing after a first pass that deleted containers
C2_Witness ==
    /\ pc = "deferred"
    /\ prev.ran /\ ~prev.failed /\ prev.n > 0
    /\ enumOk
    /\ Len(queue) = 0

\* the client was connected (the deferred cleanup is registered right after)
Connected == Call("client", "New") \in done
Exited == exitCode # Alive

\* C3 (as stated) -- once the client is connected, the process never exits
\* without having invoked cleanup.
C3_CleanupAlwaysRuns == (Connected /\ Exited) => pass >= 1

\* the calls of start, in program order
StartSteps ==
    <<Call("client", "Pull"), Call("client", "NewContainer"),
      Call(Original, "NewTask"), Call(Original, "Wait"), Call(Original, "Start")>>
StartErrs ==
    <<Err("client", "Pull"), Err("client", "NewContainer"),
      Err(Original, "NewTask"), Err(Original, "Wait"), Err(Original, "Start")>>
StartFailedAt(i) == StartSteps[i] \in calls \ done
StartFailed == \E i \in 1..Len(StartSteps) : StartFailedAt(i)

\* C4 (as stated) -- when a step of start fails, no later step is executed, the
\* error of that step is what main reports, and once the process has exited
\* no container created by this run is left in the service.
C4_StartAborts ==
    \A i \in 1..Len(StartSteps) : StartFailedAt(i) =>
        /\ \A j \in (i + 1)..Len(StartSteps) : StartSteps[j] \notin calls
        /\ Call(Original, "Checkpoint") \notin calls
        /\ Exited => fatal = StartErrs[i]
        /\ Exited => created \cap containers = {}

SnapshotsCalls ==
    {Call(Original, "Checkpoint"), Call("os", "Create"), Call("client", "Export")}
RestoreCalls ==
    {Call("os", "Seek"), Call("client", "Import"), Call("client", "GetImage"),
     Call("client", "Restore"), Call(Restored, "NewTask"), Call(Restored, "Wait"),
     Call(Restored, "Start")}
SnapshotsFailed == (SnapshotsCalls \cap calls) \ done # {}
RestoreFailed == (RestoreCalls \cap calls) \ done # {}
\* main is at the top-level wait, or has returned from it
AtWait == pc = "select"
LeftWait == "received signal" \in logged \/ "task completed" \in logged
WaitReady == sigPending \/ origCh = "fired"

\* what holds in every state once snapshots or restore has returned an error
C5_NonFatalState ==
    /\ SnapshotsFailed => "err:snapshots" \in logged
    /\ RestoreFailed => "err:restore" \in logged
    /\ (SnapshotsFailed \/ RestoreFailed) =>
        /\ fatal = Nil
        /\ ~panicking
        /\ pass = 0 => (Call(Original, "rm.Kill") \notin calls /\ Original \notin killed)
        /\ pass >= 1 => LeftWait
        /\ Exited => pass >= 1

\* C5 -- failures of checkpoint, export, import or restore are not fatal: the
\* error is printed, main does not stop the original task, the process exits
\* only through the top-level wait and cleanup; main does reach the wait, and
\* once a signal or the exit of the original task is there, cleanup starts.
C5_NonFatal ==
    /\ []C5_NonFatalState
    /\ [][((SnapshotsFailed \/ RestoreFailed) /\ pass' = 0
              /\ task'[Original] # task[Original]) => pc' = pc]_vars
    /\ (SnapshotsFailed \/ RestoreFailed) ~> (AtWait \/ LeftWait)
    /\ ((SnapshotsFailed \/ RestoreFailed) /\ AtWait /\ WaitReady) ~> (pass >= 1)

\* checkpoint failed, restore failed on the nil file, and cleanup ran after a
\* signal
C5_Witness ==
    /\ Call(Original, "Checkpoint") \in calls \ done
    /\ Call("os", "Seek") \in calls \ done
    /\ "received signal" \in logged
    /\ pass = 1

\* cleanup ran and returned an error
CleanupFailed == pass >= 1 /\ finalErr # Nil

\* C6 (as stated) -- the process exits with status 127 exactly when cleanup
\* returned an error, and with status 0 in every other termination.
C6_ExitStatus_Original ==
    Exited => /\ (exitCode = ExitCleanupFailed <=> CleanupFailed)
              /\ (~CleanupFailed => exitCode = 0)

\* C6 (amended) -- status 127 exactly when cleanup ran and returned an error;
\* status 0 exactly when main returned from the top-level wait and cleanup
\* returned nil; status 1 exactly when the connection or start failed (cleanup
\* does not run); status 2 exactly when restore panicked and cleanup returned
\* nil.
C6_ExitStatus ==
    Exited =>
        /\ exitCode \in {0, ExitFatal, ExitPanic, ExitCleanupFailed}
        /\ (exitCode = ExitCleanupFailed <=> CleanupFailed)
        /\ (exitCode = 0 <=> (pass >= 1 /\ finalErr = Nil /\ LeftWait))
        /\ (exitCode = ExitFatal <=> (pass = 0 /\ (~Connected \/ StartFailed)))
        /\ (exitCode = ExitPanic <=> (pass >= 1 /\ finalErr = Nil /\ panicking))
        /\ (panicking <=> ~LeftWait /\ pass >= 1)

\* the process left the wait on a signal and cleanup failed
C6_Witness ==
    /\ Exited
    /\ exitCode = ExitCleanupFailed
    /\ "received signal" \in logged
    /\ Failed # {}

Started(c) == Call(c, "Start") \in done
ExitCh(c) == IF c = Original THEN origCh ELSE restCh

\* C7 -- for the original and for the restored task, Start is issued only
\* after the exit-wait was registered without error, so an exit of a started
\* task, however early, is delivered on the channel start/restore returns.
C7_ExitRace ==
    \A c \in {Original, Restored} :
        /\ Call(c, "Start") \in calls => Call(c, "Wait") \in done
        /\ Call(c, "Wait") \in calls \ done => Call(c, "Start") \notin calls
        /\ task[c] = "running" => ExitCh(c) = "open"
        /\ (Started(c) /\ task[c] # "running") => ExitCh(c) \in {"fired", "consumed"}

\* the original task exited right after Start, before main did anything else
C7_Witness ==
    /\ pc = "snapshots.Checkpoint"
    /\ task[Original] = "stopped"
    /\ origCh = "fired"

\* C8 -- Checkpoint is issued only after the original task was started, Export
\* only after Checkpoint returned, Import only after the archive was rewound
\* to offset zero; after a failed rewind neither Import nor Restore is issued.
C8_PhaseOrder ==
    /\ Call(Original, "Checkpoint") \in calls => Started(Original)
    /\ Call("client", "Export") \in calls => Call(Original, "Checkpoint") \in done
    /\ Call("client", "Import") \in calls => Call("os", "Seek") \in done
    /\ pc = "restore.Import" => offset = 0
    /\ Call("os", "Seek") \in calls \ done =>
        (Call("client", "Import") \notin calls /\ Call("client", "Restore") \notin calls)

\* the archive was exported, rewound and imported
C8_Witness ==
    /\ Call("client", "Export") \in done
    /\ Call("client", "Import") \in done
    /\ images = <<CheckpointImage>>

\* C9 -- at the top-level wait main can proceed exactly when a signal is
\* buffered or the exit of the original task has arrived; the step that
\* leaves the wait consumes one of the two; the exit of the restored task
\* alone does not let it proceed.
C9_EventLoop ==
    /\ [](AtWait => ((ENABLED Main) <=> WaitReady))
    /\ [][(AtWait /\ pc' # pc) =>
            \/ (sigPending /\ ~sigPending' /\ origCh' = origCh)
            \/ (origCh = "fired" /\ origCh' = "consumed" /\ sigPending' = sigPending)]_vars

\* the restored task has exited, and main is still blocked in the wait
C9_Witness ==
    /\ AtWait
    /\ restCh = "fired"
    /\ ~WaitReady

AllCallsOk == calls = done
Both == {Original, Restored}

\* C10 (as stated) -- when every call succeeds, both containers exist with
\* running tasks at the top-level wait, and the cleanup that follows the wait
\* deletes both and returns nil.
C10_EndToEnd_Original ==
    /\ (AtWait /\ AllCallsOk) =>
        /\ Both \subseteq containers
        /\ \A c \in Both : task[c] = "running"
    /\ (pc = "deferred" /\ AllCallsOk /\ LeftWait) =>
        /\ Both \cap containers = {}
        /\ finalErr = Nil

\* C10 (amended) -- when every call succeeds, both containers exist at the
\* top-level wait, each with a task that was started and is running unless it
\* has already exited by itself, and the cleanup that follows the wait deletes
\* both (two "container deleted" lines) and returns nil.
C10_EndToEnd ==
    /\ (AtWait /\ AllCallsOk) =>
        /\ Len(images) = 1
        /\ Both \subseteq containers
        /\ \A c \in Both :
            /\ Started(c)
            /\ task[c] \in {"running", "stopped"}
            /\ task[c] = "stopped" => ExitCh(c) = "fired"
            /\ c \notin killed
    /\ (pc = "deferred" /\ AllCallsOk /\ LeftWait) =>
        /\ Both \cap containers = {}
        /\ \A c \in Both : task[c] = "none"
        /\ {"container deleted:" \o c : c \in Both} \subseteq logged
        /\ finalErr = Nil

\* the whole scenario ran without a failing call and cleanup has returned
C10_Witness ==
    /\ pc = "deferred"
    /\ AllCallsOk
    /\ LeftWait
    /\ created = Both
    /\ Len(queue) >= 2
    /\ finalErr = Nil

BlockedForever ==
    /\ pc = "remove.recv"
    /\ rmCh = "open"
    /\ task[cur] # "running"

\* C12 (as stated) -- a container whose task never delivers its exit does not
\* hold up the pass: cleanup is never blocked for good in the remove of one
\* container, so the other enumerated containers are attempted and cleanup
\* returns.
C12_StuckDoesNotBlock == ~BlockedForever

\* containers of the current pass whose record the pass has deleted
Deleted == {c \in Range(queue) : rmResult[c].returned /\ rmResult[c].err = Nil}

\* C13 -- Teardown order of one container.  Kill is sent only when the status
\* remove read is running; the task is deleted only after its exit was
\* received; the record is deleted only after the task was deleted; no record
\* is deleted while its task exists.
C13_TeardownOrder ==
    /\ pc = "remove.Kill" => (status = "running" /\ Call(cur, "rm.Status") \in done)
    /\ pc = "remove.TaskDelete" =>
        /\ Call(cur, "rm.Wait") \in done
        /\ task[cur] = "stopped"
    /\ \A c \in CIDs :
        /\ Call(c, "rm.Kill") \in calls => Call(c, "rm.Status") \in done
        /\ Call(c, "rm.TaskDelete") \in calls => Call(c, "rm.Wait") \in done
        /\ Call(c, "rm.ContainerDelete") \in calls => Call(c, "rm.TaskDelete") \in done
        /\ Call(c, "rm.ContainerDelete") \in done => task[c] = "none"
        /\ c \in Deleted =>
            /\ c \notin containers
            /\ task[c] = "none"
            /\ Call(c, "rm.ContainerDelete") \in done

\* a running container was killed, its exit received, and task and record
\* deleted in that order
C13_Witness ==
    \E c \in Deleted :
        /\ Call(c, "rm.Kill") \in done
        /\ c \notin containers

\* C14 (as stated) -- Snapshot reclamation.  When cleanup returns, the
\* snapshot of every container it removed without error is gone from the
\* service, like its task and its record.
C14_SnapshotReclaimed ==
    CleanupReturned =>
        \A c \in Deleted :
            /\ c \notin containers
            /\ task[c] = "none"
            /\ SnapshotOf(c) \notin snaps

\* C15 (as stated) -- Checkpoint precondition.  The step that issues
\* Checkpoint is taken only while the task of the original container is
\* running.
C15_CheckpointOnlyRunning ==
    [][(Call(Original, "Checkpoint") \in calls' \ calls)
           => task[Original] = "running"]_vars

\* main is inside start, snapshots/export or restore
InPhase ==
    pc \in {"start.Pull", "start.NewContainer", "start.NewTask", "start.Wait",
            "start.Start", "snapshots.Checkpoint", "export.Create", "export.Export",
            "restore.Seek", "restore.Import", "restore.GetImage", "restore.Restore",
            "restore.NewTask", "restore.Wait", "restore.Start"}

C17_NoPartialRestore ==
    /\ Call("os", "Create") \in calls => Call(Original, "Checkpoint") \in done
    /\ Call("client", "Export") \in calls => Call(Original, "Checkpoint") \in done
    /\ SnapshotsFailed =>
        /\ archiveFile = "nil"
        /\ Call("os", "Seek") \notin done
        /\ Call("client", "Import") \notin calls
        /\ Call("client", "Restore") \notin calls
        /\ images = <<>>
        /\ Restored \notin created
        /\ pc \notin {"snapshots.Checkpoint", "export.Create", "export.Export",
                      "restore.Seek"} => RestoreFailed

\* Export failed after a successful Checkpoint and main is at the wait
C17_Witness ==
    /\ Call(Original, "Checkpoint") \in done
    /\ Call("client", "Export") \in calls \ done
    /\ "err:restore" \in logged
    /\ AtWait

\* Import returned no error and no image, and restore has moved past it
EmptyImport ==
    /\ Call("client", "Import") \in done
    /\ images = <<>>
    /\ pc # "restore.GetImage"

\* C18 (as stated) -- Empty import is handled as a failure: restore returns an
\* error (which main prints) without creating a container, the process does
\* not panic, and it exits only after the top-level wait.
C18_EmptyImportIsError ==
    EmptyImport =>
        /\ Restored \notin created
        /\ ~panicking
        /\ "err:restore" \in logged
        /\ Exited => LeftWait

\* the enumeration and every status, kill, wait and delete call of cleanup
\* returned without error, and a task lookup failed only where no task exists
TeardownCalls == {"rm.Status", "rm.Kill", "rm.Wait", "rm.TaskDelete",
                  "rm.ContainerDelete"}
TeardownOk ==
    /\ enumOk
    /\ \A c \in CIDs : \A k \in TeardownCalls :
          Call(c, k) \in calls => Call(c, k) \in done
    /\ \A c \in CIDs : Call(c, "rm.Task") \in calls \ done => task[c] = "none"

\* C19 (as stated) -- when the process exits after the top-level wait and the
\* teardown calls succeeded, no container created by this run is left in the
\* service.
C19_AllReclaimed ==
    (Exited /\ LeftWait /\ TeardownOk) => created \cap containers = {}

\* the calls of remove in program order, and the name of the error of each
RemoveSteps ==
    <<"rm.Task", "rm.Status", "rm.Kill", "rm.Wait", "rm.TaskDelete",
      "rm.ContainerDelete">>
RemoveErrs ==
    <<"Task", "Status", "Kill", "Wait", "TaskDelete", "ContainerDelete">>
RemoveFailedAt(c, i) == Call(c, RemoveSteps[i]) \in calls \ done
Occurrences(q, x) == Cardinality({k \in 1..Len(q) : q[k] = x})

\* C20 -- The first failing step ends the teardown of that container: no
\* later step of remove is issued for it, remove returns that one error, the
\* record stays in the service, and the loop has moved on to the next
\* container.  A container without a task fails at the task lookup.
C20_FirstFailureEnds ==
    \A c \in CIDs :
        /\ \A i \in 1..Len(RemoveSteps) : RemoveFailedAt(c, i) =>
            /\ \A j \in (i + 1)..Len(RemoveSteps) :
                  Call(c, RemoveSteps[j]) \notin calls
            /\ rmResult[c] = [returned |-> TRUE, err |-> Err(c, RemoveErrs[i])]
            /\ c \in containers
            /\ Occurrences(errs, Err(c, RemoveErrs[i])) = 1
            /\ pc = "deferred" => Occurrences(finalErr, Err(c, RemoveErrs[i])[1]) = 1
            /\ \E k \in 1..Len(queue) : queue[k] = c /\ idx > k
        /\ (rmResult[c].returned /\ Call(c, "rm.Task") \in calls
              /\ Call(c, "rm.Status") \notin calls) =>
            /\ RemoveFailedAt(c, 1)
            /\ Len(rmResult[c].err) = 1

\* a container without a task failed at the lookup and kept its record, and
\* the container after it was deleted
C20_Witness ==
    /\ CleanupReturned
    /\ Len(queue) = 2
    /\ task[queue[1]] = "none"
    /\ RemoveFailedAt(queue[1], 1)
    /\ queue[1] \in containers
    /\ queue[2] \in Deleted
    /\ Len(finalErr) = 1

====
